---- MODULE Spec2Model ----
(***************************************************************************)
(* State-machine model of yokadi's SyncManager                            *)
(* (src/yokadi/sync/syncmanager.py).                                      *)
(*                                                                         *)
(* A commit is modelled by the set of edits (one edit = one dump file,    *)
(* keyed by its own UUID) its history contains, together with the dump    *)
(* version marker.  Edits are never reused, so two replicas never touch   *)
(* the same UUID.  The VCS implementation, the merge/import functions and *)
(* the VERSION constant live outside syncmanager.py; they are modelled at *)
(* their interface.                                                       *)
(*                                                                         *)
(* Spec and LiveSpec are the synchronization engine; IntegritySpec is     *)
(* checkDumpIntegrity() run on every dump of a bounded domain, where the  *)
(* files of a directory carry their items (name, projectUuid).            *)
(***************************************************************************)
EXTENDS Naturals, FiniteSets, Sequences

VARIABLES
    pc,           \* position of the running engine call ("idle" when none runs)
    op,           \* the engine call that runs, or ran last
    result,       \* outcome of the last call: "None", "True", "False", "Returned", or an exception
    VERSION,      \* dump version the local engine supports (yokadi.sync.VERSION)
    local,        \* edits in the local branch history (HEAD)
    dirty,        \* uncommitted edits in the working tree
    origin,       \* edits of origin/master, the last known remote reference
    originVer,    \* dump version recorded in origin/master
    remote,       \* edits in the shared remote repository
    remoteVer,    \* dump version recorded in the remote repository
    tags,         \* commits carrying the label BEFORE_MERGE_TAG
    db,           \* edits present as rows in the database
    progress,     \* last message given to pullUi.reportProgress
    errors,       \* kinds of message given to pullUi.reportError by the running call
    trace,        \* steps the current pull()/importAll() has performed, in order
    mergeOpen,    \* history: a merge operation was entered and not finalized
    snap,         \* history: branch and working tree when the tag was last created
    pullOk,       \* history: pull() returned True in this loop iteration, no push since
    nffPending,   \* history: a not-fast-forward push of this sync() is not yet settled
    retries,      \* history: not-fast-forward retries of the running sync()
    remotePushes, \* history: remote pushes that landed during the running sync()
    gate,         \* history: inputs and verdict of the last version gate
    dumpDir,      \* content of the projects, tasks and aliases directories of the dump
    session,      \* uuids of the rows of the Project, Task and Alias tables
    printed       \* lines the last checkDumpIntegrity() printed

vars == <<pc, op, result, VERSION, local, dirty, origin, originVer, remote,
          remoteVer, tags, db, progress, errors, trace, mergeOpen, snap,
          pullOk, nffPending, retries, remotePushes, gate, dumpDir, session,
          printed>>

\* Bounds of the model.
MaxEdits == 3
MaxVersion == 2

Edits == 1..MaxEdits
Versions == 1..MaxVersion

NoSnap == [local |-> {}, dirty |-> {}]
NoGate == [R |-> 0, L |-> 0, upToDate |-> FALSE, ok |-> TRUE, err |-> "none"]

\* Bound of the model: files a directory of the dump may hold.
MaxFiles == 2

\* A file of a dump directory is named by the uuid of its item, and its JSON
\* object carries the same uuid; uuids are numbered per directory.
Files == 1..MaxFiles
Names == {"a", "b"}

PROJECTS_DIRNAME == "projects"
TASKS_DIRNAME == "tasks"
ALIASES_DIRNAME == "aliases"

\* What one file name of a directory holds: no file, a file that is not JSON,
\* a JSON object without its projectUuid key, or a well-formed item.
Absent == [json |-> "absent", name |-> "", projectUuid |-> 0]
Item(n, u) == [json |-> "ok", name |-> n, projectUuid |-> u]

\* A task names the project of file 1, or a project no file stands for.
ProjectRefs == {0, 1}

NamedItems == {Absent} \cup {Item(n, 0) : n \in Names}
TaskItems == {Absent,
              [json |-> "invalid", name |-> "", projectUuid |-> 0],
              [json |-> "nokey", name |-> "", projectUuid |-> 0]}
             \cup {Item("", u) : u \in ProjectRefs}

\* The contents of aliases/, up to the numbering of its files and the choice
\* of the names: the files are numbered from 1 and the first is named "a".
AliasDirs ==
    {d \in [Files -> NamedItems] :
        /\ d[1] \in {Absent, Item("a", 0)}
        /\ \A f \in Files : (f > 1 /\ d[f] # Absent) => d[f - 1] # Absent}

DumpDirs == {[projects |-> p, tasks |-> t, aliases |-> a] :
                p \in [Files -> NamedItems], t \in [Files -> TaskItems],
                a \in AliasDirs}

EmptyDump == [projects |-> [f \in Files |-> Absent],
              tasks |-> [f \in Files |-> Absent],
              aliases |-> [f \in Files |-> Absent]]

EmptySession == [projects |-> {}, tasks |-> {}, aliases |-> {}]

----------------------------------------------------------------------------
(* VCS interface (vcsImpl), as described by the interface section.         *)

isWorkTreeClean == dirty = {}

hasTag == tags # {}

\* createTag(BEFORE_MERGE_TAG): labels the current commit; a label that is
\* already in use is refused and stays where it is.
createTag(t, commit) == IF t = {} THEN {commit} ELSE t

deleteTag(t) == {}

\* The commit the tag names.
TagRef == CHOOSE c \in tags : TRUE

\* isUpToDate(): the local branch already contains the fetched remote state.
isUpToDate == origin \subseteq local

\* push() is a fast-forward when the remote holds nothing the branch lacks.
IsFastForward == remote \subseteq local

\* The version marker of the dump the engine pushes: the engine writes its own
\* VERSION, unless the history it holds was already written by a newer one.
PushedVersion == IF remoteVer > VERSION THEN remoteVer ELSE VERSION

\* An edit no replica has used yet.
Unused(e) == e \notin (local \cup dirty \cup origin \cup remote \cup db)
             /\ \A c \in tags : e \notin c

\* Edits are interchangeable: the next edit made is the first unused one.
Fresh(e) == Unused(e) /\ \A f \in Edits : Unused(f) => e <= f

----------------------------------------------------------------------------
(* Predicates and helpers of SyncManager.                                  *)

isMergeInProgress == hasTag

hasChangesToCommit == ~isWorkTreeClean

hasChangesToImport == local # TagRef

hasChangesToPush == local # origin \/ VERSION > originVer

\* Variant: the second test forgets to look at isUpToDate().
_checkDumpVersionError_noUpToDate(remoteDumpVersion, supported, upToDate) ==
    IF remoteDumpVersion > supported THEN "update_yokadi"
    ELSE IF remoteDumpVersion < supported THEN "old_remote_changes"
    ELSE "none"

_checkDumpVersionError(remoteDumpVersion, supported, upToDate) ==
    IF remoteDumpVersion > supported THEN "update_yokadi"
    ELSE IF remoteDumpVersion < supported /\ ~upToDate THEN "old_remote_changes"
    ELSE "none"

_checkDumpVersion(remoteDumpVersion, supported, upToDate) ==
    _checkDumpVersionError(remoteDumpVersion, supported, upToDate) = "none"

\* Variant: the tag is deleted in a finally clause.
_mergeOperationOnError_finally(t) == deleteTag(t)

\* What _mergeOperation does to the tag when its body raises: the generator
\* has no try/finally, so the statement after the yield is not run.
_mergeOperationOnError(t) == t

\* Variant: the tag is not deleted after the body.
_mergeOperationOnExit_keep(t) == t

\* What _mergeOperation does to the tag when its body completes.
_mergeOperationOnExit(t) == deleteTag(t)

InMergeOperation == pc \in {"merge", "import", "importAll", "untag"}

----------------------------------------------------------------------------
Init ==
    /\ pc = "idle"
    /\ op = "none"
    /\ result = "None"
    /\ VERSION \in Versions
    /\ local = {}
    /\ dirty = {}
    /\ origin = {}
    /\ originVer \in Versions
    /\ remote = {}
    /\ remoteVer = originVer
    /\ tags = {}
    /\ db = {}
    /\ progress = ""
    /\ errors = {}
    /\ trace = <<>>
    /\ mergeOpen = FALSE
    /\ snap = NoSnap
    /\ pullOk = FALSE
    /\ nffPending = FALSE
    /\ retries = 0
    /\ remotePushes = 0
    /\ gate = NoGate
    /\ dumpDir = EmptyDump
    /\ session = EmptySession
    /\ printed = {}

vcsVars == <<local, dirty, origin, originVer, tags>>
remoteVars == <<remote, remoteVer>>
uiVars == <<progress, errors>>
syncHist == <<pullOk, nffPending, retries, remotePushes>>
mergeHist == <<mergeOpen, snap>>
integrityVars == <<dumpDir, session, printed>>

\* Results that stand for an exception reaching the caller, by where it arose.
Exceptions == {"raised:assert", "raised:fetch", "raised:tag", "raised:merge",
               "raised:import", "raised:push", "raised:reset",
               "raised:interrupt", "raised:json", "raised:unicity",
               "raised:task"}

Raised == result \in Exceptions

\* The running call ends with an exception reaching its caller.
Raise(cause) ==
    /\ pc' = "idle"
    /\ result' = cause
    /\ tags' = IF InMergeOperation THEN _mergeOperationOnError(tags) ELSE tags
    /\ UNCHANGED <<op, VERSION, integrityVars, origin, originVer, remoteVars,
                   uiVars, trace, mergeHist, syncHist, gate>>

\* The running call returns `value` to its caller.
Return(value) ==
    /\ pc' = "idle"
    /\ result' = value

\* Something else happens while no call runs: what the previous call
\* reported is forgotten.
Forget(name) ==
    /\ pc = "idle"
    /\ op' = name
    /\ progress' = ""
    /\ errors' = {}
    /\ trace' = <<>>
    /\ pullOk' = FALSE
    /\ nffPending' = FALSE
    /\ retries' = 0
    /\ remotePushes' = 0
    /\ gate' = NoGate

\* A call starts: what the previous call reported is forgotten.
Begin(name) ==
    /\ pc = "idle"
    /\ op' = name
    /\ result' = "None"
    /\ errors' = {}
    /\ trace' = <<>>
    /\ pullOk' = FALSE
    /\ nffPending' = FALSE
    /\ retries' = 0
    /\ remotePushes' = 0
    /\ gate' = NoGate

----------------------------------------------------------------------------
\* Variant: sync() enters its loop without committing.
sync_begin_noCommit ==
    /\ Begin("sync")
    /\ progress' = ""
    /\ pc' = "pull"
    /\ UNCHANGED <<VERSION, integrityVars, vcsVars, remoteVars, db, mergeHist>>

\* Variant: commitAll() is called whether or not there is anything to commit.
sync_begin_alwaysCommit ==
    /\ Begin("sync")
    /\ progress' = "Committing local changes"
    /\ local' = local \cup dirty
    /\ dirty' = {}
    /\ pc' = "pull"
    /\ UNCHANGED <<VERSION, integrityVars, origin, originVer, remoteVars, tags,
                   db, mergeHist>>

(* sync(), lines 62-64: commit the local changes, then enter the loop.     *)
sync_begin ==
    /\ Begin("sync")
    /\ IF hasChangesToCommit
         THEN /\ progress' = "Committing local changes"
              /\ local' = local \cup dirty
              /\ dirty' = {}
         ELSE /\ progress' = ""
              /\ UNCHANGED <<local, dirty>>
    /\ pc' = "pull"
    /\ UNCHANGED <<VERSION, integrityVars, origin, originVer, remoteVars, tags,
                   db, mergeHist>>

(* pull() called on its own.                                               *)
pull_begin ==
    /\ Begin("pull")
    /\ pc' = "pull"
    /\ progress' = ""
    /\ UNCHANGED <<VERSION, integrityVars, vcsVars, remoteVars, db, mergeHist>>

(* pull(), lines 93-95: the assertions and the first progress message.     *)
pull_enter ==
    /\ pc = "pull"
    /\ IF isWorkTreeClean
         THEN /\ progress' = "Pulling remote changes"
              /\ pc' = "fetch"
              /\ trace' = <<>>
              /\ pullOk' = FALSE
              /\ UNCHANGED <<op, result, VERSION, integrityVars, vcsVars,
                             remoteVars, db, errors, mergeHist, nffPending,
                             retries, remotePushes, gate>>
         ELSE /\ Raise("raised:assert")
              /\ UNCHANGED <<local, dirty, db>>

(* pull(), line 96: fetch the remote history, no merge yet.                *)
pull_fetch ==
    /\ pc = "fetch"
    /\ origin' = remote
    /\ originVer' = remoteVer
    /\ trace' = Append(trace, "fetch")
    /\ pc' = "gate"
    /\ UNCHANGED <<op, result, VERSION, integrityVars, local, dirty,
                   remoteVars, tags, db, uiVars, mergeHist, syncHist, gate>>

(* pull(), line 96: fetch fails; nothing in pull() or sync() catches it.   *)
pull_fetch_error ==
    /\ pc = "fetch"
    /\ Raise("raised:fetch")
    /\ UNCHANGED <<local, dirty, db>>

\* Variant: the error is reported but pull() goes on to the merge.
pull_checkDumpVersion_noReturn ==
    /\ pc = "gate"
    /\ LET ok == _checkDumpVersion(originVer, VERSION, isUpToDate)
           err == _checkDumpVersionError(originVer, VERSION, isUpToDate)
       IN /\ gate' = [R |-> originVer, L |-> VERSION, upToDate |-> isUpToDate,
                      ok |-> ok, err |-> err]
          /\ trace' = Append(trace, "gate")
          /\ errors' = IF ok THEN errors ELSE errors \cup {err}
          /\ pc' = "tag"
    /\ UNCHANGED <<op, result, VERSION, integrityVars, vcsVars, remoteVars,
                   db, progress, mergeHist, syncHist>>

\* Variant: sync() goes on to the push decision whatever pull() returned.
pull_checkDumpVersion_ignored ==
    /\ pc = "gate"
    /\ LET ok == _checkDumpVersion(originVer, VERSION, isUpToDate)
           err == _checkDumpVersionError(originVer, VERSION, isUpToDate)
       IN /\ gate' = [R |-> originVer, L |-> VERSION, upToDate |-> isUpToDate,
                      ok |-> ok, err |-> err]
          /\ trace' = Append(trace, "gate")
          /\ IF ok
               THEN /\ pc' = "tag"
                    /\ UNCHANGED <<result, errors>>
               ELSE /\ errors' = errors \cup {err}
                    /\ IF op = "sync"
                         THEN pc' = "check" /\ UNCHANGED result
                         ELSE Return("False")
    /\ UNCHANGED <<op, VERSION, integrityVars, vcsVars, remoteVars, db,
                   progress, mergeHist, syncHist>>

(* pull(), lines 97-98: the version gate.                                  *)
pull_checkDumpVersion ==
    /\ pc = "gate"
    /\ LET ok == _checkDumpVersion(originVer, VERSION, isUpToDate)
           err == _checkDumpVersionError(originVer, VERSION, isUpToDate)
       IN /\ gate' = [R |-> originVer, L |-> VERSION, upToDate |-> isUpToDate,
                      ok |-> ok, err |-> err]
          /\ trace' = Append(trace, "gate")
          /\ IF ok
               THEN /\ pc' = "tag"
                    /\ UNCHANGED <<result, errors>>
               ELSE /\ errors' = errors \cup {err}
                    /\ Return("False")
    /\ UNCHANGED <<op, VERSION, integrityVars, vcsVars, remoteVars, db,
                   progress, mergeHist, syncHist>>

(* _mergeOperation, line 40: create the checkpoint tag.                    *)
mergeOperation_enter ==
    /\ pc = "tag"
    /\ tags' = createTag(tags, local)
    /\ IF ~hasTag
         THEN /\ pc' = IF op = "importAll" THEN "importAll" ELSE "merge"
              /\ mergeOpen' = TRUE
              /\ snap' = [local |-> local, dirty |-> dirty]
              /\ trace' = Append(trace, "tag")
              /\ UNCHANGED result
         ELSE /\ pc' = "idle"
              /\ result' = "raised:tag"
              /\ UNCHANGED <<mergeHist, trace>>
    /\ UNCHANGED <<op, VERSION, integrityVars, local, dirty, origin,
                   originVer, remoteVars, db, uiVars, syncHist, gate>>

\* merge(vcsImpl, pullUi): the VCS-native merge of the fetched history.
merge(head, fetched) == head \cup fetched

\* importSince(session, vcsImpl, tag): apply the files changed since `since`.
importSince(rows, head, since) == rows \cup (head \ since)

\* importAll(session, vcsImpl): apply every file of the dump.
importAll(rows, files) == rows \cup files

\* resetTo(BEFORE_MERGE_TAG): branch and working tree become the tagged commit.
resetTo(commit) == [local |-> commit, dirty |-> {}]

\* Variant: the merge is left out.
pull_merge_skip ==
    /\ pc = "merge"
    /\ trace' = Append(trace, "merge")
    /\ pc' = "import"
    /\ UNCHANGED <<op, result, VERSION, integrityVars, local, dirty, origin,
                   originVer, remoteVars, tags, db, uiVars, mergeHist,
                   syncHist, gate>>

(* pull(), line 101: merge inside the merge operation.                     *)
pull_merge ==
    /\ pc = "merge"
    /\ local' = merge(local, origin)
    /\ trace' = Append(trace, "merge")
    /\ pc' = "import"
    /\ UNCHANGED <<op, result, VERSION, integrityVars, dirty, origin,
                   originVer, remoteVars, tags, db, uiVars, mergeHist,
                   syncHist, gate>>

(* pull(), line 101: the merge raises, leaving part of the fetched files   *)
(* in the working tree.                                                    *)
pull_merge_error ==
    /\ pc = "merge"
    /\ \E part \in SUBSET (origin \ local) : dirty' = dirty \cup part
    /\ Raise("raised:merge")
    /\ UNCHANGED <<local, db>>

\* Variant: the import runs without asking hasChangesToImport().
pull_import_always ==
    /\ pc = "import"
    /\ progress' = "Importing changes"
    /\ db' = importSince(db, local, TagRef)
    /\ trace' = Append(trace, "import")
    /\ pc' = "untag"
    /\ UNCHANGED <<op, result, VERSION, integrityVars, vcsVars, remoteVars,
                   errors, mergeHist, syncHist, gate>>

(* pull(), lines 102-106: import what changed since the checkpoint.        *)
pull_import ==
    /\ pc = "import"
    /\ IF hasChangesToImport
         THEN /\ progress' = "Importing changes"
              /\ db' = importSince(db, local, TagRef)
              /\ trace' = Append(trace, "import")
         ELSE /\ progress' = "No remote changes"
              /\ trace' = Append(trace, "nochanges")
              /\ UNCHANGED db
    /\ pc' = "untag"
    /\ UNCHANGED <<op, result, VERSION, integrityVars, vcsVars, remoteVars,
                   errors, mergeHist, syncHist, gate>>

(* pull(), line 104: the import raises after applying part of the changes. *)
pull_import_error ==
    /\ pc = "import"
    /\ hasChangesToImport
    /\ \E part \in SUBSET (local \ TagRef) :
          /\ part # local \ TagRef
          /\ db' = db \cup part
    /\ Raise("raised:import")
    /\ UNCHANGED <<local, dirty>>

(* importAll(), lines 110-111.                                             *)
importAll_begin ==
    /\ Begin("importAll")
    /\ pc' = "tag"
    /\ progress' = ""
    /\ UNCHANGED <<VERSION, integrityVars, vcsVars, remoteVars, db, mergeHist>>

(* importAll(), line 112.                                                  *)
importAll_body ==
    /\ pc = "importAll"
    /\ db' = importAll(db, local \cup dirty)
    /\ trace' = Append(trace, "importAll")
    /\ pc' = "untag"
    /\ UNCHANGED <<op, result, VERSION, integrityVars, vcsVars, remoteVars,
                   uiVars, mergeHist, syncHist, gate>>

(* importAll(), line 112: the import raises after applying part of it.     *)
importAll_error ==
    /\ pc = "importAll"
    /\ \E part \in SUBSET (local \cup dirty) : db' = db \cup part
    /\ Raise("raised:import")
    /\ UNCHANGED <<local, dirty>>

(* _mergeOperation, line 42: the body completed, delete the tag; then      *)
(* pull() returns True (line 107) or importAll() returns.                  *)
mergeOperation_exit ==
    /\ pc = "untag"
    /\ tags' = _mergeOperationOnExit(tags)
    /\ mergeOpen' = FALSE
    /\ snap' = NoSnap
    /\ trace' = Append(trace, "untag")
    /\ IF op = "sync"
         THEN /\ pc' = "check"
              /\ pullOk' = TRUE
              /\ UNCHANGED result
         ELSE /\ Return(IF op = "pull" THEN "True" ELSE "Returned")
              /\ UNCHANGED pullOk
    /\ UNCHANGED <<op, VERSION, integrityVars, local, dirty, origin,
                   originVer, remoteVars, db, uiVars, nffPending, retries,
                   remotePushes, gate>>

\* Variant: sync() leaves the loop after the pull, whatever is left to push.
sync_check_break ==
    /\ pc = "check"
    /\ Return("True")
    /\ nffPending' = FALSE
    /\ UNCHANGED <<op, VERSION, integrityVars, vcsVars, remoteVars, db,
                   uiVars, trace, mergeHist, pullOk, retries, remotePushes,
                   gate>>

(* sync(), lines 69-71: is there anything to push?                         *)
sync_check ==
    /\ pc = "check"
    /\ IF ~hasChangesToPush
         THEN /\ Return("True")
              /\ nffPending' = FALSE
              /\ UNCHANGED progress
         ELSE /\ progress' = "Pushing local changes"
              /\ pc' = "push"
              /\ UNCHANGED <<result, nffPending>>
    /\ UNCHANGED <<op, VERSION, integrityVars, vcsVars, remoteVars, db,
                   errors, trace, mergeHist, pullOk, retries, remotePushes,
                   gate>>

(* sync(), lines 73-74: the push succeeds.                                 *)
sync_push_ok ==
    /\ pc = "push"
    /\ IsFastForward
    /\ remote' = local
    /\ remoteVer' = PushedVersion
    /\ origin' = local
    /\ originVer' = PushedVersion
    /\ Return("True")
    /\ nffPending' = FALSE
    /\ pullOk' = FALSE
    /\ UNCHANGED <<op, VERSION, integrityVars, local, dirty, tags, db, uiVars,
                   trace, mergeHist, retries, remotePushes, gate>>

\* Variant: the push is tried again without pulling first.
sync_push_notFastForward_noPull ==
    /\ pc = "push"
    /\ ~IsFastForward
    /\ progress' = "Remote has other changes, need to pull again"
    /\ pc' = "push"
    /\ retries' = retries + 1
    /\ nffPending' = TRUE
    /\ pullOk' = FALSE
    /\ UNCHANGED <<op, result, VERSION, integrityVars, vcsVars, remoteVars,
                   db, errors, trace, mergeHist, remotePushes, gate>>

\* Variant: the handler leaves the loop, as the successful push does.
sync_push_notFastForward_break ==
    /\ pc = "push"
    /\ ~IsFastForward
    /\ progress' = "Remote has other changes, need to pull again"
    /\ Return("True")
    /\ retries' = retries + 1
    /\ nffPending' = TRUE
    /\ pullOk' = FALSE
    /\ UNCHANGED <<op, VERSION, integrityVars, vcsVars, remoteVars, db,
                   errors, trace, mergeHist, remotePushes, gate>>

(* sync(), lines 75-76: not fast-forward, go round the loop again.         *)
sync_push_notFastForward ==
    /\ pc = "push"
    /\ ~IsFastForward
    /\ progress' = "Remote has other changes, need to pull again"
    /\ pc' = "pull"
    /\ retries' = retries + 1
    /\ nffPending' = TRUE
    /\ pullOk' = FALSE
    /\ UNCHANGED <<op, result, VERSION, integrityVars, vcsVars, remoteVars,
                   db, errors, trace, mergeHist, remotePushes, gate>>

\* Variant: the failure is reported and the loop goes round again.
sync_push_error_retry ==
    /\ pc = "push"
    /\ errors' = errors \cup {"push_failed"}
    /\ pc' = "pull"
    /\ pullOk' = FALSE
    /\ UNCHANGED <<op, result, VERSION, integrityVars, vcsVars, remoteVars,
                   db, progress, trace, mergeHist, nffPending, retries,
                   remotePushes, gate>>

(* sync(), lines 77-79: any other VCS failure.                             *)
sync_push_error ==
    /\ pc = "push"
    /\ errors' = errors \cup {"push_failed"}
    /\ Return("False")
    /\ pullOk' = FALSE
    /\ UNCHANGED <<op, VERSION, integrityVars, vcsVars, remoteVars, db,
                   progress, trace, mergeHist, nffPending, retries,
                   remotePushes, gate>>

(* push() called on its own, lines 114-115: errors reach the caller.       *)
push ==
    /\ Forget("push")
    /\ \/ /\ IsFastForward
          /\ remote' = local
          /\ remoteVer' = PushedVersion
          /\ origin' = local
          /\ originVer' = PushedVersion
          /\ result' = "Returned"
       \/ /\ result' = "raised:push"
          /\ UNCHANGED <<remote, remoteVer, origin, originVer>>
    /\ UNCHANGED <<pc, VERSION, integrityVars, local, dirty, tags, db,
                   mergeHist>>

\* Variant: the tag is left in place after the reset.
abortMerge_keepTag ==
    /\ Forget("abortMerge")
    /\ IF hasTag
         THEN /\ local' = resetTo(TagRef).local
              /\ dirty' = resetTo(TagRef).dirty
              /\ mergeOpen' = FALSE
              /\ snap' = NoSnap
              /\ result' = "Returned"
              /\ UNCHANGED tags
         ELSE /\ result' = "raised:reset"
              /\ UNCHANGED <<local, dirty, tags, mergeOpen, snap>>
    /\ UNCHANGED <<pc, VERSION, integrityVars, origin, originVer, remoteVars,
                   db>>

\* Variant: the tag is deleted without resetting to it.
abortMerge_noReset ==
    /\ Forget("abortMerge")
    /\ IF hasTag
         THEN /\ tags' = deleteTag(tags)
              /\ mergeOpen' = FALSE
              /\ snap' = NoSnap
              /\ result' = "Returned"
              /\ UNCHANGED <<local, dirty>>
         ELSE /\ result' = "raised:reset"
              /\ UNCHANGED <<local, dirty, tags, mergeOpen, snap>>
    /\ UNCHANGED <<pc, VERSION, integrityVars, origin, originVer, remoteVars,
                   db>>

\* Variant: the rows whose file the reset removed are deleted as well.
abortMerge_rollback ==
    /\ Forget("abortMerge")
    /\ IF hasTag
         THEN /\ local' = resetTo(TagRef).local
              /\ dirty' = resetTo(TagRef).dirty
              /\ tags' = deleteTag(tags)
              /\ mergeOpen' = FALSE
              /\ snap' = NoSnap
              /\ result' = "Returned"
              /\ db' = db \cap resetTo(TagRef).local
         ELSE /\ result' = "raised:reset"
              /\ UNCHANGED <<local, dirty, tags, mergeOpen, snap, db>>
    /\ UNCHANGED <<pc, VERSION, integrityVars, origin, originVer, remoteVars>>

(* abortMerge(), lines 57-59.                                              *)
abortMerge ==
    /\ Forget("abortMerge")
    /\ IF hasTag
         THEN /\ local' = resetTo(TagRef).local
              /\ dirty' = resetTo(TagRef).dirty
              /\ tags' = deleteTag(tags)
              /\ mergeOpen' = FALSE
              /\ snap' = NoSnap
              /\ result' = "Returned"
         ELSE /\ result' = "raised:reset"
              /\ UNCHANGED <<local, dirty, tags, mergeOpen, snap>>
    /\ UNCHANGED <<pc, VERSION, integrityVars, origin, originVer, remoteVars,
                   db>>

----------------------------------------------------------------------------
(* The environment.                                                        *)

\* The application changes a row; the replicator writes its dump file.
LocalEdit ==
    /\ pc = "idle"
    /\ \E e \in Edits :
          /\ Fresh(e)
          /\ db' = db \cup {e}
          /\ dirty' = dirty \cup {e}
    /\ Forget("none")
    /\ result' = "None"
    /\ UNCHANGED <<pc, VERSION, integrityVars, local, origin, originVer,
                   remoteVars, tags, mergeHist>>

SyncRunning == op = "sync" /\ pc # "idle"

\* Another replica pushes an edit to the shared repository, at any time; its
\* dump is written by the same or by a newer version.
RemotePush ==
    /\ \E e \in Edits :
          /\ Fresh(e)
          /\ remote' = remote \cup {e}
    /\ \E v \in Versions :
          /\ v >= remoteVer
          /\ remoteVer' = v
    /\ remotePushes' = IF SyncRunning THEN remotePushes + 1 ELSE remotePushes
    /\ UNCHANGED <<pc, op, result, VERSION, integrityVars, vcsVars, db,
                   uiVars, trace, mergeHist, pullOk, nffPending, retries,
                   gate>>

\* The running call is interrupted where it stands.
Interrupt ==
    /\ pc # "idle"
    /\ Raise("raised:interrupt")
    /\ UNCHANGED <<local, dirty, db>>

----------------------------------------------------------------------------
SyncStep ==
    \/ pull_enter
    \/ pull_fetch
    \/ pull_checkDumpVersion
    \/ mergeOperation_enter
    \/ pull_merge
    \/ pull_import
    \/ importAll_body
    \/ mergeOperation_exit
    \/ sync_check
    \/ sync_push_ok
    \/ sync_push_notFastForward

Next ==
    \/ sync_begin
    \/ pull_begin
    \/ importAll_begin
    \/ push
    \/ abortMerge
    \/ pull_enter
    \/ pull_fetch
    \/ pull_fetch_error
    \/ pull_checkDumpVersion
    \/ mergeOperation_enter
    \/ pull_merge
    \/ pull_merge_error
    \/ pull_import
    \/ pull_import_error
    \/ importAll_body
    \/ importAll_error
    \/ mergeOperation_exit
    \/ sync_check
    \/ sync_push_ok
    \/ sync_push_notFastForward
    \/ sync_push_error
    \/ LocalEdit
    \/ RemotePush
    \/ Interrupt

Spec == Init /\ [][Next]_vars

\* The engine is single-threaded and blocking: a call that has started keeps
\* running until it returns or raises.
LiveSpec == Spec /\ WF_vars(SyncStep)

----------------------------------------------------------------------------
(* checkDumpIntegrity(), lines 117-179.  Each check gives the lines it     *)
(* prints and the exception it ends with ("none" when it returns).         *)

Line(kind, dirname, name, n) ==
    [kind |-> kind, dirname |-> dirname, name |-> name, n |-> n]

\* os.listdir(): the files a directory holds.
listdir(dirname) == {f \in Files : dumpDir[dirname][f].json # "absent"}

\* os.listdir() gives the files in an order of its own.
Orders(S) == {o \in [1..Cardinality(S) -> S] :
                 \A i, j \in 1..Cardinality(S) : o[i] = o[j] => i = j}

\* The database in step with the dump: a row for every item that has a uuid.
SessionOf(dump) ==
    [d \in {PROJECTS_DIRNAME, TASKS_DIRNAME, ALIASES_DIRNAME} |->
        {f \in Files : dump[d][f].json \in {"ok", "nokey"}}]

(* _checkItems(), lines 126-149: json.load of every file, then the two     *)
(* set differences between the uuids of the dump and those of the table.   *)
_checkItems(dirname) ==
    IF \E f \in listdir(dirname) : dumpDir[dirname][f].json = "invalid"
      THEN [out |-> {}, exc |-> "raised:json"]
      ELSE LET dumpUuids == listdir(dirname)
               dbUuids == session[dirname]
           IN [out |-> {Line("missingDb", dirname, "", u) :
                           u \in dumpUuids \ dbUuids}
                       \cup {Line("missingDump", dirname, "", u) :
                                 u \in dbUuids \ dumpUuids},
               exc |-> "none"]

\* The files of a directory whose item carries the name.
FilesNamed(dirname, name) ==
    {f \in listdir(dirname) : dumpDir[dirname][f].name = name}

\* findConflicts(jsonDirPath, "name"): the items of every name that more
\* than one item of the directory carries.
findConflicts(dirname) ==
    [name \in {n \in Names : Cardinality(FilesNamed(dirname, n)) > 1} |->
        FilesNamed(dirname, name)]

\* The names conflicts.items() may give first.
FirstConflicts(dirname) ==
    IF DOMAIN findConflicts(dirname) = {} THEN {""}
    ELSE DOMAIN findConflicts(dirname)

(* _checkUnicity(), lines 151-159: the header of the first conflict is     *)
(* printed; line 158 then indexes the list conflictList with "uuid" and    *)
(* raises TypeError before any path is printed.                            *)
_checkUnicity(dirname, first) ==
    LET conflicts == findConflicts(dirname)
    IN IF DOMAIN conflicts = {}
         THEN [out |-> {}, exc |-> "none"]
         ELSE [out |-> {Line("conflict", dirname, first,
                             Cardinality(conflicts[first]))},
               exc |-> "raised:unicity"]

\* The project uuids of line 163: the file names of the projects directory
\* without their extension.
projectUuids == listdir(PROJECTS_DIRNAME)

(* _checkTaskProjects(), lines 161-179, from the i-th file of the listing: *)
(* a file that cannot be read as a task raises, the path in the message;   *)
(* a task whose projectUuid is no project file is printed.                 *)
RECURSIVE _checkTaskProjects(_, _)
_checkTaskProjects(order, i) ==
    IF i > Len(order) THEN [out |-> {}, exc |-> "none"]
    ELSE LET dct == dumpDir[TASKS_DIRNAME][order[i]]
         IN IF dct.json # "ok" THEN [out |-> {}, exc |-> "raised:task"]
            ELSE LET rest == _checkTaskProjects(order, i + 1)
                 IN [out |-> (IF dct.projectUuid \notin projectUuids
                                THEN {Line("danglingTask", TASKS_DIRNAME, "",
                                           order[i])}
                                ELSE {}) \cup rest.out,
                     exc |-> rest.exc]

\* One statement after another: an exception in the first ends the run, the
\* lines printed so far stay printed.
Then(first, next) ==
    LET a == first
    IN IF a.exc # "none" THEN a
       ELSE LET b == next IN [out |-> a.out \cup b.out, exc |-> b.exc]

\* The six checks of lines 119-124, in their order.
Run(order, firstProject, firstAlias) ==
    Then(_checkItems(PROJECTS_DIRNAME),
    Then(_checkItems(TASKS_DIRNAME),
    Then(_checkItems(ALIASES_DIRNAME),
    Then(_checkUnicity(PROJECTS_DIRNAME, firstProject),
    Then(_checkUnicity(ALIASES_DIRNAME, firstAlias),
         _checkTaskProjects(order, 1))))))

\* Variant: the pass deletes the task files it reports.
checkDumpIntegrity_repair ==
    /\ Forget("checkDumpIntegrity")
    /\ \E order \in Orders(listdir(TASKS_DIRNAME)),
          firstProject \in FirstConflicts(PROJECTS_DIRNAME),
          firstAlias \in FirstConflicts(ALIASES_DIRNAME) :
          LET run == Run(order, firstProject, firstAlias)
          IN /\ printed' = run.out
             /\ result' = IF run.exc = "none" THEN "Returned" ELSE run.exc
             /\ dumpDir' = [dumpDir EXCEPT !.tasks =
                               [f \in Files |->
                                  IF Line("danglingTask", TASKS_DIRNAME, "", f)
                                        \in run.out
                                    THEN Absent ELSE @[f]]]
    /\ UNCHANGED <<pc, VERSION, vcsVars, remoteVars, db, mergeHist, session>>

(* checkDumpIntegrity(), lines 117-124: the checks run in order until one  *)
(* raises; nothing but standard output is written.                         *)
checkDumpIntegrity ==
    /\ Forget("checkDumpIntegrity")
    /\ \E order \in Orders(listdir(TASKS_DIRNAME)),
          firstProject \in FirstConflicts(PROJECTS_DIRNAME),
          firstAlias \in FirstConflicts(ALIASES_DIRNAME) :
          LET run == Run(order, firstProject, firstAlias)
          IN /\ printed' = run.out
             /\ result' = IF run.exc = "none" THEN "Returned" ELSE run.exc
    /\ UNCHANGED <<pc, VERSION, vcsVars, remoteVars, db, mergeHist, dumpDir,
                   session>>

\* The integrity pass on its own: any dump next to a database that is in
\* step with it or empty, with or without a merge left open.
IntegrityInit ==
    /\ pc = "idle"
    /\ op = "none"
    /\ result = "None"
    /\ VERSION = 1
    /\ local = {}
    /\ dirty = {}
    /\ origin = {}
    /\ originVer = 1
    /\ remote = {}
    /\ remoteVer = 1
    /\ tags \in {{}, {{}}}
    /\ db = {}
    /\ progress = ""
    /\ errors = {}
    /\ trace = <<>>
    /\ mergeOpen = (tags # {})
    /\ snap = NoSnap
    /\ pullOk = FALSE
    /\ nffPending = FALSE
    /\ retries = 0
    /\ remotePushes = 0
    /\ gate = NoGate
    /\ dumpDir \in DumpDirs
    /\ session \in {SessionOf(dumpDir), EmptySession}
    /\ printed = {}

IntegrityNext == checkDumpIntegrity

IntegritySpec == IntegrityInit /\ [][IntegrityNext]_vars

----------------------------------------------------------------------------
(* Properties.                                                             *)

TraceHas(step) == \E i \in DOMAIN trace : trace[i] = step

IsPrefix(s, t) == Len(s) <= Len(t) /\ \A i \in DOMAIN s : s[i] = t[i]

\* C1: inside sync(), whenever push() is about to be called, a pull() has
\* returned success in this same loop iteration with no push since, and the
\* branch contains the state that pull fetched (passed the gate and merged).
C1_PushOnlyAfterMergedPull ==
    pc = "push" =>
        /\ op = "sync"
        /\ pullOk
        /\ gate.ok /\ gate.R = originVer
        /\ trace[1] = "fetch" /\ TraceHas("merge")
        /\ origin \subseteq local

\* A push is about to be made in a retry iteration of sync().
C1_Witness == pc = "push" /\ retries > 0 /\ pullOk

\* C2: after a not-fast-forward push sync() is back at the top of its loop,
\* having reported progress, and it has not returned success unless a later
\* iteration pushed successfully or found nothing left to push.
C2_ConflictNeverDropped ==
    /\ (nffPending /\ pc = "pull") =>
           /\ op = "sync"
           /\ progress = "Remote has other changes, need to pull again"
    /\ nffPending => ~(pc = "idle" /\ result = "True")

\* sync() returned success after at least one not-fast-forward push.
C2_Witness == op = "sync" /\ pc = "idle" /\ result = "True" /\ retries > 0

\* C3: when the version gate fails, pull() reports the error and returns
\* failure (and so does sync()), and that step creates no tag, merges nothing
\* and imports nothing; a merge is only ever started on a fetched state that
\* passed the gate.
C3_GateFailureMutatesNothing ==
    /\ [](~gate.ok =>
             /\ pc = "idle" /\ result = "False"
             /\ gate.err \in errors
             /\ trace = <<"fetch", "gate">>)
    /\ []((op # "importAll" /\ pc \in {"tag", "merge"}) =>
             /\ gate.ok /\ gate.R = originVer
             /\ _checkDumpVersion(originVer, VERSION, gate.upToDate))
    /\ [][(pc = "gate" /\ pc' # "gate" /\ ~Raised'
              /\ ~_checkDumpVersion(originVer, VERSION, isUpToDate))
            => /\ pc' = "idle" /\ result' = "False"
               /\ errors' # errors
               /\ UNCHANGED <<local, dirty, tags, db, origin, originVer>>]_vars

\* The gate failed in a retry iteration of sync().
C3_Witness == ~gate.ok /\ op = "sync" /\ retries > 0 /\ result = "False"

GateErrors == {"update_yokadi", "old_remote_changes"}

\* C4: the gate passes exactly when R = L, or R < L and the local state is up
\* to date with the remote; otherwise it fails and reports the error of its
\* case (R > L: update needed; R < L and not up to date: old remote changes).
C4_GateVerdict ==
    gate.R # 0 =>
        /\ gate.ok <=> (gate.R = gate.L \/ (gate.R < gate.L /\ gate.upToDate))
        /\ gate.ok => errors \cap GateErrors = {}
        /\ (gate.R > gate.L) => errors = {"update_yokadi"}
        /\ (gate.R < gate.L /\ ~gate.upToDate) => errors = {"old_remote_changes"}

\* The gate let an older remote version through because the local state was
\* up to date.
C4_Witness == gate.R # 0 /\ gate.R < gate.L /\ gate.upToDate /\ gate.ok

C4_WitnessNewer == gate.R > gate.L /\ ~gate.ok

C4_WitnessOlderBehind == gate.R # 0 /\ gate.R < gate.L /\ ~gate.upToDate /\ ~gate.ok

C4_WitnessEqual == gate.R # 0 /\ gate.R = gate.L /\ ~gate.upToDate /\ gate.ok

\* The running or last call raised between tag creation and tag deletion.
InterruptedInMerge ==
    pc = "idle" /\ Raised /\ TraceHas("tag") /\ ~TraceHas("untag")

\* C5 as stated: after a raise or an interruption inside the merge operation
\* the tag is present, and nothing else differs from the state the tag was
\* created in.
C5_TagIsOnlyArtifact ==
    InterruptedInMerge =>
        /\ isMergeInProgress
        /\ local = snap.local
        /\ dirty = snap.dirty

\* C5 amended: the tag is deleted only by the normal exit of a merge
\* operation (or by abortMerge); after a raise or an interruption between tag
\* creation and tag deletion the tag is still present and still marks the
\* checkpoint commit.
C5_TagSurvivesInterruption ==
    /\ [](InterruptedInMerge =>
             /\ isMergeInProgress
             /\ TagRef = snap.local)
    /\ [][(tags # {} /\ tags' = {}) =>
             \/ pc = "untag" /\ ~Raised'
             \/ pc = "idle" /\ op' = "abortMerge"]_vars

\* An import was interrupted after it had applied part of the changes.
C5_Witness ==
    /\ InterruptedInMerge
    /\ op = "pull"
    /\ TraceHas("merge")
    /\ local # snap.local
    /\ isMergeInProgress

C7_InProgressFlag ==
    /\ InMergeOperation => isMergeInProgress
    /\ (pc = "idle" /\ op = "pull" /\ result = "True") => ~isMergeInProgress
    /\ (pc = "idle" /\ op = "importAll" /\ result = "Returned") => ~isMergeInProgress
    /\ pullOk => ~isMergeInProgress

\* pull() returned success after merging and importing remote changes.
C7_Witness ==
    /\ pc = "idle" /\ op = "pull" /\ result = "True"
    /\ TraceHas("import")
    /\ ~isMergeInProgress

\* A step of abortMerge() taken while a merge is in progress.
AbortStep == pc = "idle" /\ op' = "abortMerge" /\ isMergeInProgress

\* C8 as stated: abortMerge() brings branch and working tree back to exactly
\* what they were when the tag was created, and deletes the tag.
C8_AbortRestoresSnapshot ==
    [][AbortStep =>
          /\ local' = snap.local
          /\ dirty' = snap.dirty
          /\ ~isMergeInProgress']_vars

\* C8 amended: abortMerge() brings the branch back to the commit the tag was
\* created on and the working tree to that commit's files, and deletes the
\* tag; this is exactly the state the tag was created in whenever the working
\* tree was clean then (which pull() asserts), while changes that were
\* uncommitted when importAll() created the tag are discarded.
C8_AbortRestoresTaggedCommit ==
    [][AbortStep =>
          /\ local' = snap.local
          /\ dirty' = {}
          /\ (snap.dirty = {} => dirty' = snap.dirty)
          /\ ~isMergeInProgress'
          /\ result' = "Returned"]_vars

\* abortMerge() has rolled back a merge whose changes had already been
\* imported: a fetched edit is in the database but no longer in the branch.
C8_Witness ==
    /\ op = "abortMerge" /\ result = "Returned"
    /\ ~isMergeInProgress
    /\ dirty = {}
    /\ \E e \in db : e \in origin /\ e \notin local

\* Exceptions that come from outside the loop of sync(): a collaborator
\* failing, an interruption, or the tag an earlier interrupted merge left.
Faults == {"raised:fetch", "raised:merge", "raised:import", "raised:tag",
           "raised:interrupt"}

\* How a sync() call can have ended.
SyncOutcome ==
    (op = "sync" /\ pc = "idle") =>
        \/ result = "True"
        \/ result = "False" /\ (~gate.ok \/ "push_failed" \in errors)
        \/ result \in Faults

\* C9: with edits that never touch the same UUID, every sync() call ends;
\* unless a collaborator fails or the call is interrupted, it returns, and it
\* returns failure only after an incompatible remote version or a generic
\* push failure; and at any moment the number of not-fast-forward retries is
\* at most the number of remote pushes that landed during the call.
C9_SyncConverges ==
    /\ [](retries <= remotePushes)
    /\ [](SyncOutcome)
    /\ [](SyncRunning => <>(pc = "idle"))

\* sync() returned success after two not-fast-forward retries, one for each
\* of the two remote pushes that landed during the call.
C9_Witness ==
    /\ op = "sync" /\ pc = "idle" /\ result = "True"
    /\ retries = 2 /\ remotePushes = 2

PullOrder == <<"fetch", "gate", "tag", "merge", "import", "untag">>
PullOrderNoChanges == <<"fetch", "gate", "tag", "merge", "nochanges", "untag">>

\* C10: the steps of one pull() happen in the order fetch, gate, tag, merge,
\* import (or the "no changes" report), tag deletion; the merge and the import
\* are invoked only while the tag exists; the import is invoked exactly when
\* the change set since the tag is non-empty, and otherwise "No remote
\* changes" is reported and the database is left alone.
C10_PullOrder ==
    /\ [](op \in {"pull", "sync"} =>
             (IsPrefix(trace, PullOrder) \/ IsPrefix(trace, PullOrderNoChanges)))
    /\ [](pc \in {"merge", "import"} => isMergeInProgress)
    /\ [][(pc = "import" /\ pc' = "untag") =>
             IF local # TagRef
               THEN /\ trace' = Append(trace, "import")
                    /\ progress' = "Importing changes"
                    /\ db' = db \cup (local \ TagRef)
               ELSE /\ trace' = Append(trace, "nochanges")
                    /\ progress' = "No remote changes"
                    /\ db' = db]_vars

\* A pull() that merged nothing new completed without importing.
C10_Witness ==
    /\ op = "pull" /\ pc = "idle" /\ result = "True"
    /\ trace = PullOrderNoChanges
    /\ progress = "No remote changes"

----------------------------------------------------------------------------
(* C11: when the push fails with a VCS failure other than not-fast-forward,*)
(* sync() reports the error and returns failure, and that call does no     *)
(* further pull or push: once "Failed to push" is reported the call is     *)
(* over, with False as its value.                                          *)
C11_PushFailureEndsSync ==
    "push_failed" \in errors =>
        /\ op = "sync"
        /\ pc = "idle"
        /\ result = "False"

\* The push failed in a retry iteration, after a pull that merged.
C11_Witness ==
    /\ "push_failed" \in errors
    /\ op = "sync" /\ result = "False"
    /\ retries > 0
    /\ TraceHas("untag")

----------------------------------------------------------------------------
(* C12: if pull() fails in any iteration of the loop, sync() returns       *)
(* failure at once: the pull is not retried, hasChangesToPush() is not     *)
(* consulted and no push is attempted.  sync() stands at the push decision *)
(* or at the push only after a pull() that succeeded; and when the pull    *)
(* has failed the call is over with False, the last thing it announced     *)
(* being the pull itself.                                                  *)
C12_PullFailureEndsSync ==
    /\ (op = "sync" /\ pc \in {"check", "push"}) => (pullOk /\ gate.ok)
    /\ (op = "sync" /\ ~gate.ok) =>
           /\ pc = "idle"
           /\ result = "False"
           /\ ~pullOk
           /\ progress = "Pulling remote changes"

\* The pull failed while the branch still had commits to push.
C12_Witness ==
    /\ op = "sync" /\ pc = "idle" /\ result = "False"
    /\ ~gate.ok
    /\ hasChangesToPush

----------------------------------------------------------------------------
(* C13: failures of sync() and pull() are communicated through reportError *)
(* and a failure return value only, never thrown across their boundary: a  *)
(* fetch error, a merge error or an import error makes pull() return       *)
(* failure rather than raise.  pull() has no handler round fetch(),        *)
(* merge() or importSince() (lines 94-106) and sync() has none round       *)
(* pull() (line 66), so the statement does not hold of the code.           *)
C13_FailuresNeverThrown ==
    op \in {"sync", "pull"} =>
        result \notin {"raised:fetch", "raised:merge", "raised:import"}

----------------------------------------------------------------------------
\* checkDumpIntegrity() has ended, by returning or by raising.
CheckDone == op = "checkDumpIntegrity" /\ pc = "idle"

\* Every task file of the dump can be read as a task.
TasksWellFormed ==
    \A f \in Files : dumpDir[TASKS_DIRNAME][f].json \in {"absent", "ok"}

\* The names more than one item of the directory carries.
Conflicting(dirname) ==
    {n \in Names : Cardinality(FilesNamed(dirname, n)) > 1}

(* C14: the unicity check reports every name that occurs in more than one  *)
(* Project or Alias item and lists the file of every item sharing it: for  *)
(* two Project files with the same name both files are listed and the      *)
(* check completes, going on to the remaining checks.  Line 158 raises on  *)
(* the first conflict, so the statement does not hold of the code.         *)
C14_UnicityListsEveryFile ==
    (CheckDone /\ TasksWellFormed) =>
        /\ result = "Returned"
        /\ \A dirname \in {PROJECTS_DIRNAME, ALIASES_DIRNAME} :
              \A n \in Conflicting(dirname) :
                 /\ Line("conflict", dirname, n,
                         Cardinality(FilesNamed(dirname, n))) \in printed
                 /\ \A f \in FilesNamed(dirname, n) :
                       Line("conflictFile", dirname, n, f) \in printed

----------------------------------------------------------------------------
\* The task files whose project no Project item of the dump stands for.
Dangling ==
    {t \in listdir(TASKS_DIRNAME) :
        /\ dumpDir[TASKS_DIRNAME][t].json = "ok"
        /\ \A f \in listdir(PROJECTS_DIRNAME) :
              dumpDir[TASKS_DIRNAME][t].projectUuid # f}

\* The task files checkDumpIntegrity() printed as pointing to no project.
ReportedTasks == {l.n : l \in {x \in printed : x.kind = "danglingTask"}}

(* C15: the referential check of checkDumpIntegrity() reports exactly the  *)
(* Task files whose projectUuid is not the uuid of a Project item of the   *)
(* dump: no Task whose project exists is reported and every dangling Task  *)
(* is.  When a name is carried twice the unicity check raises first (C14)  *)
(* and the referential check is never reached, so dangling Tasks go        *)
(* unreported: the statement does not hold of the code.                    *)
C15_ReferentialCheckExact ==
    (CheckDone /\ TasksWellFormed) => ReportedTasks = Dangling

\* What does hold: whenever the referential check is reached, on a dump
\* whose task files are well formed, it reports exactly the dangling tasks.
ReferentialCheckExactWhenReached ==
    (CheckDone /\ TasksWellFormed /\ result = "Returned") =>
        ReportedTasks = Dangling

\* No task whose project exists is ever reported.
NoSoundTaskReported == CheckDone => ReportedTasks \subseteq Dangling

----------------------------------------------------------------------------
(* C16: checkDumpIntegrity() never mutates state: the dump files, the      *)
(* database rows, the VCS history and the presence of the tag are the same *)
(* after the call as before it, for every dump and database content, also  *)
(* when discrepancies are found and when the call halts on a malformed     *)
(* Task file.                                                              *)
C16_CheckIsReadOnly ==
    [][op' = "checkDumpIntegrity" =>
          UNCHANGED <<dumpDir, session, db, local, dirty, origin, originVer,
                      remote, remoteVer, tags, VERSION>>]_vars

\* The call found discrepancies, then halted on a malformed task file, with
\* the tag of an unfinished merge in place.
C16_Witness ==
    /\ CheckDone
    /\ result = "raised:task"
    /\ \E l \in printed : l.kind = "danglingTask"
    /\ \E l \in printed : l.kind = "missingDb"
    /\ hasTag

----------------------------------------------------------------------------
\* sync() is entered: the step from rest to the head of its loop.
SyncEntry == pc = "idle" /\ op' = "sync" /\ pc' = "pull"

(* C17: sync() commits the local changes under "s_sync" exactly when the   *)
(* working tree is dirty at entry; the commit is made before the first     *)
(* fetch/pull, and at most one such commit is made per call: none in the   *)
(* retry iterations.  A commit moves the uncommitted edits into the branch *)
(* and is announced by "Committing local changes" (lines 63-64).           *)
C17_CommitOnlyAtEntry ==
    /\ [][SyncEntry =>
             IF dirty # {}
               THEN /\ progress' = "Committing local changes"
                    /\ local' = local \cup dirty
                    /\ dirty' = {}
               ELSE /\ progress' # "Committing local changes"
                    /\ local' = local
                    /\ dirty' = dirty]_vars
    /\ [][SyncRunning =>
             /\ progress' = "Committing local changes" => progress' = progress
             /\ ~(dirty # {} /\ dirty' = {})]_vars
    /\ []((op = "sync" /\ progress = "Committing local changes") =>
             (pc = "pull" /\ retries = 0) \/ pc = "idle")

\* sync() has just committed the local changes and stands before its first
\* pull().
C17_Witness ==
    /\ op = "sync" /\ pc = "pull"
    /\ progress = "Committing local changes"
    /\ local # {} /\ local \subseteq db
    /\ retries = 0

----------------------------------------------------------------------------
(* C18: the clean-working-tree precondition of pull() holds at every       *)
(* pull() that sync() invokes, in the first and in the retry iterations,   *)
(* so the assertion of pull() never fires inside sync().                   *)
C18_PullPreconditionInSync ==
    /\ (op = "sync" /\ pc = "pull") => isWorkTreeClean
    /\ op = "sync" => result # "raised:assert"

\* sync() stands before pull() again, after an iteration that merged and
\* imported remote changes.
C18_Witness ==
    /\ op = "sync" /\ pc = "pull"
    /\ retries > 0
    /\ TraceHas("import")
    /\ local # {}

----------------------------------------------------------------------------
(* C19: whenever sync() returns success, no merge is in progress (the      *)
(* before-merge tag is absent) and nothing is left to push (the change set *)
(* against origin/master is empty).                                        *)
C19_SuccessMeansSettled ==
    (op = "sync" /\ pc = "idle" /\ result = "True") =>
        /\ ~isMergeInProgress
        /\ ~hasChangesToPush

\* sync() merged, pushed after a retry and returned success.
C19_Witness ==
    /\ op = "sync" /\ pc = "idle" /\ result = "True"
    /\ TraceHas("untag")
    /\ retries > 0
    /\ local # {}
    /\ origin = local /\ remote = local

----------------------------------------------------------------------------
\* The last call was a pull() that stopped while importing: importSince()
\* raised, or the call was interrupted after the merge.
ImportInterrupted ==
    /\ pc = "idle"
    /\ op \in {"pull", "sync"}
    /\ \/ result = "raised:import"
       \/ /\ result = "raised:interrupt"
          /\ trace # <<>>
          /\ trace[Len(trace)] = "merge"

(* C20: abortMerge() changes VCS state only and leaves the database rows   *)
(* as they are: after a pull() interrupted during import and followed by   *)
(* abortMerge(), the working tree equals the pre-merge snapshot while the  *)
(* database keeps the rows the interrupted import applied.                 *)
C20_AbortKeepsDatabase ==
    /\ [][(AbortStep /\ ~isMergeInProgress') =>
             UNCHANGED <<db, session, dumpDir, remote, remoteVer, origin,
                         originVer, VERSION>>]_vars
    /\ [][(AbortStep /\ ImportInterrupted) =>
             /\ local' = snap.local
             /\ dirty' = snap.dirty
             /\ db' = db
             /\ ~isMergeInProgress']_vars

\* abortMerge() after an import that stopped half way: one fetched edit is
\* a row of the database, another is not, and neither is in the branch.
C20_Witness ==
    /\ op = "abortMerge" /\ result = "Returned"
    /\ \E e \in db : e \in origin /\ e \notin local
    /\ \E f \in origin : f \notin local /\ f \notin db
    /\ dirty = {}

====
